---- MODULE Spec2Model ----
(***************************************************************************)
(* OM2Log2Heatmap.py: detect_num_roots, parse_ras_weights and the emit     *)
(* loop of main, as a state machine.                                       *)
(*                                                                         *)
(* A log line is a string (without its line terminator, which split() and  *)
(* strip() drop and no searched substring contains).  Real numbers are     *)
(* fixed-point integers in thousandths (Scale): float("-0.950") is -950.   *)
(* The input lines carry at most three decimals, no exponent, no inf/nan.  *)
(*                                                                         *)
(* The log file is not stored.  Each pass over it reads its lines one at a *)
(* time, each line chosen when it is read; what detect_num_roots saw of    *)
(* the file (variable file) constrains what parse_ras_weights may read     *)
(* when it opens the same file again.                                      *)
(***************************************************************************)
EXTENDS Integers, Sequences, FiniteSets, TLC

(***************************************************************************)
(* Text primitives (Python str).                                           *)
(***************************************************************************)
Char(s, i) == SubSeq(s, i, i)

\* p in s
Contains(s, p) ==
    \E i \in 1..(Len(s) - Len(p) + 1) : SubSeq(s, i, i + Len(p) - 1) = p

IsSpace(c) == c \in {" ", "\t"}

DIGITS == "0123456789"

IsDigit(c) == Len(c) = 1 /\ Contains(DIGITS, c)

DigitVal(c) == (CHOOSE i \in 1..10 : Char(DIGITS, i) = c) - 1

UPPER == "ABCDEFGHIJKLMNOPQRSTUVWXYZ"

LOWER == "abcdefghijklmnopqrstuvwxyz"

LowerChar(c) ==
    IF Contains(UPPER, c)
    THEN Char(LOWER, CHOOSE i \in 1..26 : Char(UPPER, i) = c)
    ELSE c

RECURSIVE LowerFrom(_, _)
LowerFrom(s, i) ==
    IF i > Len(s) THEN "" ELSE LowerChar(Char(s, i)) \o LowerFrom(s, i + 1)

\* s.lower()
Lower(s) == LowerFrom(s, 1)

RECURSIVE SplitFrom(_, _, _, _)
SplitFrom(s, i, cur, acc) ==
    IF i > Len(s)
    THEN IF cur = "" THEN acc ELSE Append(acc, cur)
    ELSE IF IsSpace(Char(s, i))
         THEN SplitFrom(s, i + 1, "", IF cur = "" THEN acc ELSE Append(acc, cur))
         ELSE SplitFrom(s, i + 1, cur \o Char(s, i), acc)

\* s.split(): the maximal runs of non-whitespace characters
Split(s) == SplitFrom(s, 1, "", <<>>)

RECURSIVE LStripFrom(_, _)
LStripFrom(s, i) ==
    IF i <= Len(s) /\ IsSpace(Char(s, i)) THEN LStripFrom(s, i + 1) ELSE i

RECURSIVE RStripFrom(_, _)
RStripFrom(s, j) ==
    IF j >= 1 /\ IsSpace(Char(s, j)) THEN RStripFrom(s, j - 1) ELSE j

\* s.strip()
Strip(s) == SubSeq(s, LStripFrom(s, 1), RStripFrom(s, Len(s)))

(***************************************************************************)
(* int() and float().  A result is [ok, v]: ok = FALSE is ValueError.      *)
(***************************************************************************)
ValueError == [ok |-> FALSE, v |-> 0]

Value(n) == [ok |-> TRUE, v |-> n]

RECURSIVE DigitsVal(_, _, _)
\* the number written by the digits s[i..Len(s)], after the prefix worth acc
DigitsVal(s, i, acc) ==
    IF i > Len(s) THEN acc ELSE DigitsVal(s, i + 1, 10 * acc + DigitVal(Char(s, i)))

AllDigits(s) == \A i \in 1..Len(s) : IsDigit(Char(s, i))

\* int(tok): an optional sign and one or more digits
PyInt(tok) ==
    LET signed == Len(tok) >= 1 /\ Char(tok, 1) \in {"-", "+"}
        body   == IF signed THEN SubSeq(tok, 2, Len(tok)) ELSE tok
    IN  IF Len(body) >= 1 /\ AllDigits(body)
        THEN Value((IF signed /\ Char(tok, 1) = "-" THEN -1 ELSE 1) * DigitsVal(body, 1, 0))
        ELSE ValueError

\* 10^k
Pow10(k) == CASE k = 0 -> 1 [] k = 1 -> 10 [] k = 2 -> 100 [] OTHER -> 1000

\* the fixed-point unit: thousandths
Scale == Pow10(3)

\* float(tok), in thousandths: an optional sign, digits with at most one
\* point, at least one digit
PyFloat(tok) ==
    LET signed == Len(tok) >= 1 /\ Char(tok, 1) \in {"-", "+"}
        body   == IF signed THEN SubSeq(tok, 2, Len(tok)) ELSE tok
        dots   == {i \in 1..Len(body) : Char(body, i) = "."}
        dot    == IF dots = {} THEN Len(body) + 1 ELSE CHOOSE i \in dots : TRUE
        whole  == SubSeq(body, 1, dot - 1)
        frac   == SubSeq(body, dot + 1, Len(body))
        digs   == SubSeq(frac, 1, IF Len(frac) < 3 THEN Len(frac) ELSE 3)
        mag    == DigitsVal(whole, 1, 0) * Scale
                    + DigitsVal(digs, 1, 0) * Pow10(3 - Len(digs))
    IN  IF /\ Cardinality(dots) <= 1
           /\ AllDigits(whole) /\ AllDigits(frac)
           /\ Len(whole) + Len(frac) >= 1
        THEN Value((IF signed /\ Char(tok, 1) = "-" THEN -1 ELSE 1) * mag)
        ELSE ValueError

\* abs(x)
Abs(x) == IF x < 0 THEN -x ELSE x

(***************************************************************************)
(* The configuration-line pattern                                          *)
(*   ^\s*(\d+)\s+([\dud\*]+)\s+([-\d.]+)\s+([\d.]+)                        *)
(* Every repeated class is followed by a class disjoint from it, so the    *)
(* greedy match takes the maximal run of each class and never backtracks.  *)
(***************************************************************************)
RECURSIVE RunEnd(_, _, _)
\* the index of the last character of the maximal run of class cls that
\* starts at s[i]; i - 1 when the run is empty
RunEnd(s, i, cls) ==
    IF i <= Len(s) /\ Contains(cls, Char(s, i)) THEN RunEnd(s, i + 1, cls) ELSE i - 1

SPACES == " \t"

CONF_CHARS == "0123456789ud*"

COEFF_CHARS == "-0123456789."

WEIGHT_CHARS == "0123456789."

NoMatch == [matched |-> FALSE, g1 |-> "", g2 |-> "", g3 |-> "", g4 |-> ""]

\* re.match(pattern, s): the four groups, or no match
ReMatch(s) ==
    LET a0 == RunEnd(s, 1, SPACES)
        a1 == RunEnd(s, a0 + 1, DIGITS)
        a2 == RunEnd(s, a1 + 1, SPACES)
        a3 == RunEnd(s, a2 + 1, CONF_CHARS)
        a4 == RunEnd(s, a3 + 1, SPACES)
        a5 == RunEnd(s, a4 + 1, COEFF_CHARS)
        a6 == RunEnd(s, a5 + 1, SPACES)
        a7 == RunEnd(s, a6 + 1, WEIGHT_CHARS)
    IN  IF a1 > a0 /\ a2 > a1 /\ a3 > a2 /\ a4 > a3 /\ a5 > a4 /\ a6 > a5 /\ a7 > a6
        THEN [matched |-> TRUE,
              g1 |-> SubSeq(s, a0 + 1, a1), g2 |-> SubSeq(s, a2 + 1, a3),
              g3 |-> SubSeq(s, a4 + 1, a5), g4 |-> SubSeq(s, a6 + 1, a7)]
        ELSE NoMatch

(***************************************************************************)
(* Python values: None, int, float.                                        *)
(***************************************************************************)
None == [t |-> "None", v |-> 0]

PyIntVal(n) == [t |-> "int", v |-> n]

PyFloatVal(x) == [t |-> "float", v |-> x]

(***************************************************************************)
(* Bounds and inputs.                                                      *)
(***************************************************************************)
\* the longest log file read
MaxLines == 6

\* the thresholds tried, in thousandths
Thresholds == {200, 500}

CirootLines ==
    { "ciroot = 2 2 1", "CIROOT = 7 7 1", "ciroot = x", "ciroot =",
      "ciroot = 0 0 1", "ciroot = -1 1 1" }

RootStartLines ==
    { "printout of CI-coefficients larger than 0.05 for root 1",
      "printout of CI-coefficients larger than 0.05 for root 3",
      "printout of CI-coefficients larger than 0.05 for root x" }

EnergyLines ==
    { "energy= -100.5", "energy= -99.25", "energy= abc", "energy=" }

ConfigLines ==
    { "1 22222220u00000 -0.950 0.902",
      "1 22222220u00000 0.700 0.490",
      "2 2222222u000000 -0.300 0.090",
      "3 2222222u0 0.900 0.810",
      "4 222222200u0000 0.9.5 0.810",
      "5 222222200u0000 0.950 0.9.2" }

OtherLines ==
    { "Natural orbitals and occupation numbers", "----------", "text" }

\* Spec: the lines of a log file whose 'ciroot' lines, if any, read 2 roots
Lines ==
    {"ciroot = 2 2 1"} \cup RootStartLines \cup EnergyLines \cup ConfigLines
        \cup OtherLines

\* SpecRoots: the lines of a log file with any of the 'ciroot' lines
RootsLines ==
    CirootLines \cup
    { "printout of CI-coefficients larger than 0.05 for root 1",
      "energy= -100.5", "1 22222220u00000 -0.950 0.902", "text" }

\* SpecBlocks: the lines of a log file with blocks of roots 1, 2 and 0
BlockLines ==
    { "ciroot = 2 2 1",
      "printout of CI-coefficients larger than 0.05 for root 1",
      "printout of CI-coefficients larger than 0.05 for root 2",
      "printout of CI-coefficients larger than 0.05 for root 0",
      "energy= -100.5", "energy= -99.25",
      "1 22222220u00000 -0.950 0.902",
      "1 22222220u00000 0.700 0.490",
      "2 2222222u000000 -0.300 0.090",
      "3 222222200u0000 0.800 0.640 energy= -1.0" }

\* SpecWellFormed: the lines of a log file with 2 roots whose numeric
\* tokens are all well-formed and whose root indices are 1 and 2
WellFormedLines ==
    { "ciroot = 2 2 1",
      "printout of CI-coefficients larger than 0.05 for root 1",
      "printout of CI-coefficients larger than 0.05 for root 2",
      "energy= -100.5",
      "1 22222220u00000 -0.950 0.902",
      "2 2222222u000000 -0.300 0.090",
      "text" }

\* SpecMain: the longest log file, and the lines of the two log files
MaxMainLines == 4

MainLines ==
    { "ciroot = 2 2 1", "ciroot = 1 1 1",
      "printout of CI-coefficients larger than 0.05 for root 1",
      "printout of CI-coefficients larger than 0.05 for root 2",
      "energy= -100.5", "energy= 0.0",
      "1 22222220u00000 -0.950 0.902", "2 2222222u000000 -0.300 0.090", "text" }

AllLines ==
    Lines \cup RootsLines \cup MainLines \cup BlockLines \cup WellFormedLines

(***************************************************************************)
(* detect_num_roots                                                        *)
(***************************************************************************)
\* the default root count
DefaultRoots == 7

\* line 48
HasCiroot(l) == Contains(Lower(l), "ciroot")

\* lines 49-56 with the token never read: always the default
CirootDefault(l) == PyIntVal(DefaultRoots)

\* lines 49-56: the value returned from a line that contains 'ciroot'
CirootValue(l) ==
    LET toks == Split(l)
    IN  IF Len(toks) < 3
        THEN PyIntVal(DefaultRoots)                      \* IndexError
        ELSE LET n == PyInt(toks[3])
             IN  IF n.ok THEN PyIntVal(n.v) ELSE PyIntVal(DefaultRoots)   \* ValueError

\* lines 57-58: the value returned when no line contains 'ciroot'
NoCirootValue == None

\* the lines with 'ciroot', and what each makes detect_num_roots return
Ciroot == [l \in {k \in AllLines : HasCiroot(k)} |-> CirootValue(l)]

(***************************************************************************)
(* parse_ras_weights: one activation is the record of its locals.          *)
(*   pc  "detect"    in detect_num_roots (line 62)                         *)
(*       "roots"     about to build roots (line 63)                        *)
(*       "parse"     in the loop over the file (lines 69-113)              *)
(*       "returned"  after line 115;  "raised"  left by exception exc      *)
(***************************************************************************)
ConfLen == 14

ROOT_START == "printout of CI-coefficients larger than"

Activation(t) ==
    [pc |-> "detect", exc |-> "", threshold |-> t, num_roots |-> None,
     roots |-> <<>>, current_root |-> 0, config_count |-> 0,
     in_config_section |-> FALSE, line |-> "", next_line |-> ""]

Raise(a, e) == [a EXCEPT !.pc = "raised", !.exc = e]

Returned(a) == a.pc = "returned"

Raised(a) == a.pc = "raised"

\* line 63: roots = {i: {...} for i in range(1, num_roots+1)}
MakeRoots(a) ==
    IF a.num_roots = None
    THEN Raise(a, "TypeError")
    ELSE [a EXCEPT !.pc = "parse",
                   !.roots = [i \in 1..a.num_roots.v |->
                                 [configs |-> <<>>, energy |-> None]]]

\* line 80 as a write-once store: an energy already set is kept
StoreEnergyOnce(a, energy) ==
    IF a.current_root \in DOMAIN a.roots
    THEN IF a.roots[a.current_root].energy = None
         THEN [a EXCEPT !.roots[a.current_root].energy = PyFloatVal(energy)]
         ELSE a
    ELSE Raise(a, "KeyError")

\* line 80: roots[current_root]['energy'] = energy
StoreEnergy(a, energy) ==
    IF a.current_root \in DOMAIN a.roots
    THEN [a EXCEPT !.roots[a.current_root].energy = PyFloatVal(energy)]
    ELSE Raise(a, "KeyError")

(***************************************************************************)
(* What the loop body reads off a line: the substring tests, split(),      *)
(* int(), float() and re.match of lines 71-112, computed once per line.    *)
(***************************************************************************)
Scan(l) ==
    LET toks  == Split(l)
        match == ReMatch(Strip(l))
    IN  [root_start |-> Contains(l, ROOT_START),                        \* line 71
         root       |-> IF toks = <<>> THEN ValueError
                        ELSE PyInt(toks[Len(toks)]),                    \* line 72
         has_energy |-> Contains(l, "energy="),                         \* line 77
         energy     |-> IF Len(toks) < 2 THEN ValueError                \* IndexError
                        ELSE PyFloat(toks[2]),                          \* line 79
         match      |-> match,                                          \* lines 89, 93
         coeff      |-> PyFloat(match.g3),                              \* line 101
         weight     |-> PyFloat(match.g4),                              \* line 102
         natural    |-> Contains(l, "Natural orbitals and occupation numbers"),
         ruler      |-> Contains(l, "----") \/ Contains(l, "====")]     \* line 112

Text == [l \in AllLines \cup {""} |-> Scan(l)]

\* lines 76-82: the line after a root-start line; eof: there is none
EnergyLine(a, nl, eof) ==
    IF eof
    THEN Raise(a, "StopIteration")
    ELSE LET b == [a EXCEPT !.next_line = nl]
         IN  IF ~Text[nl].has_energy THEN b
             ELSE IF ~Text[nl].energy.ok THEN b      \* IndexError, ValueError
             ELSE StoreEnergy(b, Text[nl].energy.v)

\* lines 71-84
RootStart(a, nl, eof) ==
    LET r == Text[a.line].root
    IN  IF ~r.ok
        THEN Raise(a, "ValueError")
        ELSE EnergyLine([a EXCEPT !.current_root = r.v,
                                  !.in_config_section = TRUE,
                                  !.config_count = 0], nl, eof)

\* line 103 with the comparison dropped: every coefficient passes
AdmitsAny(coeff, t) == TRUE

\* line 103
Admits(coeff, t) == Abs(coeff) >= t

\* lines 104-105 with the record of root 1 in place of roots[current_root]
StoreConfigFirst(a, conf, weight) ==
    [a EXCEPT !.roots[1].configs =
                  [c \in DOMAIN @ \cup {conf} |-> IF c = conf THEN weight ELSE @[c]],
              !.config_count = @ + 1]

\* lines 104-105 as a first-seen-wins store: a weight already held is kept
StoreConfigOnce(a, conf, weight) ==
    IF a.current_root \in DOMAIN a.roots
    THEN [a EXCEPT !.roots[a.current_root].configs =
                       [c \in DOMAIN @ \cup {conf} |->
                           IF c \in DOMAIN @ THEN @[c] ELSE weight],
                   !.config_count = @ + 1]
    ELSE Raise(a, "KeyError")

\* lines 104-105
StoreConfig(a, conf, weight) ==
    IF a.current_root \in DOMAIN a.roots
    THEN [a EXCEPT !.roots[a.current_root].configs =
                       [c \in DOMAIN @ \cup {conf} |-> IF c = conf THEN weight ELSE @[c]],
                   !.config_count = @ + 1]
    ELSE Raise(a, "KeyError")

\* lines 93-113, reached once the pattern of line 89 has matched
ConfigLine(a) ==
    LET match == Text[a.line].match
    IN  IF match.matched
        THEN IF Len(match.g2) # ConfLen THEN a
             ELSE LET coeff  == Text[a.line].coeff
                      weight == Text[a.line].weight
                  IN  IF ~coeff.ok \/ ~weight.ok THEN a        \* ValueError
                      ELSE IF Admits(coeff.v, a.threshold)
                           THEN StoreConfig(a, match.g2, weight.v * 100)
                           ELSE a
        ELSE IF Text[a.line].natural
             THEN [a EXCEPT !.in_config_section = FALSE]
        ELSE IF Text[a.line].ruler
             THEN [a EXCEPT !.in_config_section = FALSE]
        ELSE a

\* the loop body with the line after a root-start line processed as a line
\* of its own as well
LoopBodyNextToo(a0, l, nl, eof) ==
    LET a == [a0 EXCEPT !.line = l]
    IN  IF Text[l].root_start
        THEN LET b == RootStart(a, nl, eof)
             IN  IF Raised(b) \/ eof THEN b
                 ELSE IF Text[nl].root_start
                      THEN IF Text[nl].root.ok
                           THEN [b EXCEPT !.current_root = Text[nl].root.v] ELSE b
                 ELSE IF b.current_root > 0 /\ Text[nl].match.matched
                      THEN [ConfigLine([b EXCEPT !.line = nl]) EXCEPT !.line = l]
                 ELSE b
        ELSE IF a.in_config_section /\ a.current_root > 0
             THEN IF ~Text[l].match.matched THEN a ELSE ConfigLine(a)
             ELSE a

\* the loop body with the energy taken from any line that has 'energy='
LoopBodyAnyEnergy(a0, l, nl, eof) ==
    LET a == [a0 EXCEPT !.line = l]
    IN  IF Text[l].root_start
        THEN RootStart(a, nl, eof)
        ELSE IF Text[l].has_energy /\ Text[l].energy.ok
                   /\ a.current_root \in DOMAIN a.roots
             THEN StoreEnergy(a, Text[l].energy.v)
             ELSE a

\* lines 69-113: the loop body on line l; nl (or eof) is what next(f) gives
LoopBody(a0, l, nl, eof) ==
    LET a == [a0 EXCEPT !.line = l]
    IN  IF Text[l].root_start
        THEN RootStart(a, nl, eof)
        ELSE IF a.in_config_section /\ a.current_root > 0
             THEN IF ~Text[l].match.matched THEN a ELSE ConfigLine(a)
             ELSE a

(***************************************************************************)
(* State.                                                                  *)
(*   calls   the activations of parse_ras_weights that read the open log   *)
(*           file: one, or (SpecPair) two calls on the same file that      *)
(*           differ in their threshold and are fed the same lines          *)
(*   file    the log file as far as it is known: pos lines of it are read  *)
(*           in the current pass, and of its unread lines                  *)
(*             known = "open"    nothing is known                          *)
(*             known = "ciroot"  line number at is the first that contains *)
(*                               'ciroot', and it reads line               *)
(*             known = "plain"   the file has at lines, none of which      *)
(*                               contains 'ciroot'                         *)
(*   the other variables are the locals of main and the files it writes    *)
(***************************************************************************)
VARIABLES calls, file, pc, threshold, planar_roots, nonplanar_roots,
          root, txt, png, errors

vars == <<calls, file, pc, threshold, planar_roots, nonplanar_roots,
          root, txt, png, errors>>

mainvars == <<pc, threshold, planar_roots, nonplanar_roots, root, txt, png,
              errors>>

NewFile == [pos |-> 0, known |-> "open", at |-> 0, line |-> ""]

\* the lines without 'ciroot'
PlainLines == AllLines \ DOMAIN Ciroot

\* the calls that have neither returned nor raised
Live == {c \in DOMAIN calls : calls[c].pc \notin {"returned", "raised"}}

AllAt(s) == Live # {} /\ \A c \in Live : calls[c].pc = s

\* the lines of L that line number i of a file of at most max lines may be
Readable(L, max, i) ==
    IF i > max THEN {}
    ELSE CASE file.known = "open"   -> L
           [] file.known = "plain"  -> IF i <= file.at THEN L \cap PlainLines ELSE {}
           [] file.known = "ciroot" -> IF i < file.at THEN L \cap PlainLines
                                       ELSE IF i = file.at THEN {file.line}
                                       ELSE L

\* the file may have exactly n lines
EndsAt(n) ==
    CASE file.known = "open"   -> TRUE
      [] file.known = "plain"  -> n = file.at
      [] file.known = "ciroot" -> n >= file.at

\* the file once its first n lines are read in this pass
ReadTo(n) ==
    IF file.known = "ciroot" /\ n >= file.at
    THEN [pos |-> n, known |-> "open", at |-> 0, line |-> ""]
    ELSE [file EXCEPT !.pos = n]

\* every live call takes the step f
Step(f(_)) ==
    calls' = [c \in DOMAIN calls |-> IF c \in Live THEN f(calls[c]) ELSE calls[c]]

(***************************************************************************)
(* detect_num_roots (line 62 of parse_ras_weights).                        *)
(***************************************************************************)
\* lines 47-56: one line of the file
DetectLine(L, max) ==
    /\ AllAt("detect")
    /\ file.pos < max
    /\ \E l \in L :
          IF l \in DOMAIN Ciroot
          THEN LET Found(a) == [a EXCEPT !.pc = "roots", !.num_roots = Ciroot[l]]
               IN  /\ Step(Found)
                   /\ file' = [pos |-> 0, known |-> "ciroot", at |-> file.pos + 1,
                               line |-> l]
          ELSE /\ file' = [file EXCEPT !.pos = @ + 1]
               /\ UNCHANGED calls
    /\ UNCHANGED mainvars

\* lines 57-58: the end of the file
DetectEnd ==
    /\ AllAt("detect")
    /\ LET NotFound(a) == [a EXCEPT !.pc = "roots", !.num_roots = NoCirootValue]
       IN  Step(NotFound)
    /\ file' = [pos |-> 0, known |-> "plain", at |-> file.pos, line |-> ""]
    /\ UNCHANGED mainvars

(***************************************************************************)
(* parse_ras_weights                                                       *)
(***************************************************************************)
\* lines 63-66
BuildRoots ==
    /\ AllAt("roots")
    /\ Step(MakeRoots)
    /\ UNCHANGED <<file, mainvars>>

\* line 72 succeeds, so line 76 reads a second line
ReadsNext(l) == Text[l].root_start /\ Text[l].root.ok

TwoLineStarts == {l \in AllLines : ReadsNext(l)}

\* lines 69-113: one iteration of the loop, which reads one line or two
ParseLine(L, max) ==
    /\ AllAt("parse")
    /\ \E l \in Readable(L, max, file.pos + 1) :
          IF l \in TwoLineStarts
          THEN \/ \E nl \in Readable(L, max, file.pos + 2) :
                     LET Body(a) == LoopBody(a, l, nl, FALSE)
                     IN  /\ Step(Body)
                         /\ file' = ReadTo(file.pos + 2)
               \/ /\ EndsAt(file.pos + 1)
                  /\ LET Body(a) == LoopBody(a, l, "", TRUE)
                     IN  Step(Body)
                  /\ file' = ReadTo(file.pos + 1)
          ELSE LET Body(a) == LoopBody(a, l, "", FALSE)
               IN  /\ Step(Body)
                   /\ file' = ReadTo(file.pos + 1)
    /\ UNCHANGED mainvars

\* line 115: the end of the file
ParseEnd ==
    /\ AllAt("parse")
    /\ EndsAt(file.pos)
    /\ LET Return(a) == [a EXCEPT !.pc = "returned"]
       IN  Step(Return)
    /\ UNCHANGED <<file, mainvars>>

(***************************************************************************)
(* Spec: one call parse_ras_weights(log_file, threshold) on any log file   *)
(* of at most MaxLines lines of Lines.                                     *)
(***************************************************************************)
NoMain ==
    /\ pc = "call"
    /\ planar_roots = <<>> /\ nonplanar_roots = <<>>
    /\ root = 0 /\ txt = <<>> /\ png = {} /\ errors = {}

Init ==
    /\ threshold \in Thresholds
    /\ calls = <<Activation(threshold)>>
    /\ file = NewFile
    /\ NoMain

Next ==
    \/ DetectLine(Lines, MaxLines)
    \/ DetectEnd
    \/ BuildRoots
    \/ ParseLine(Lines, MaxLines)
    \/ ParseEnd

Spec == Init /\ [][Next]_vars

(***************************************************************************)
(* SpecRoots: the same call on log files with any of the 'ciroot' lines.   *)
(***************************************************************************)
NextRoots ==
    \/ DetectLine(RootsLines, MaxLines)
    \/ DetectEnd
    \/ BuildRoots
    \/ ParseLine(RootsLines, MaxLines)
    \/ ParseEnd

SpecRoots == Init /\ [][NextRoots]_vars

(***************************************************************************)
(* SpecBlocks: the same call on log files made of blocks of roots 1, 2, 0. *)
(***************************************************************************)
NextBlocks ==
    \/ DetectLine(BlockLines, MaxLines)
    \/ DetectEnd
    \/ BuildRoots
    \/ ParseLine(BlockLines, MaxLines)
    \/ ParseEnd

SpecBlocks == Init /\ [][NextBlocks]_vars

(***************************************************************************)
(* SpecWellFormed: the same call on well-formed log files.                 *)
(***************************************************************************)
NextWellFormed ==
    \/ DetectLine(WellFormedLines, MaxLines)
    \/ DetectEnd
    \/ BuildRoots
    \/ ParseLine(WellFormedLines, MaxLines)
    \/ ParseEnd

SpecWellFormed == Init /\ [][NextWellFormed]_vars

(***************************************************************************)
(* SpecPair: two calls on the same log file, calls[1] with the lower and   *)
(* calls[2] with the higher threshold.  Both read the same lines; a call   *)
(* that has raised takes no further step.                                  *)
(***************************************************************************)
InitPair ==
    /\ threshold \in Thresholds
    /\ \E hi \in Thresholds :
          /\ threshold <= hi
          /\ calls = <<Activation(threshold), Activation(hi)>>
    /\ file = NewFile
    /\ NoMain

SpecPair == InitPair /\ [][Next]_vars

(***************************************************************************)
(* main, from line 159 on.  Its arguments are taken as parsed (lines       *)
(* 134-157): geo1 and geo2 name two log files that exist.                  *)
(*   pc  "parse_planar", "parse_nonplanar"  in the call of line 161, 162   *)
(*       "for"     at the head of the loop over the roots (line 172)       *)
(*       "frame", "open", "header", "table", "plot"  in the try block,     *)
(*                 before lines 197, 207, 209, 219 and 224                 *)
(*       "done"    past the loop;  "traceback"  ended by an exception      *)
(*   txt[r], png   the report and the heatmaps on disk                     *)
(*   errors        the roots of the 'ERROR processing root' messages       *)
(***************************************************************************)
CONFIG_LABELS ==
    [c \in { "2222222u000000", "222222200u0000", "22222220u00000", "22222u22000000",
             "222222200000u0", "2222222000u000", "22222220000u00", "2222222000000u" } |->
        CASE c = "2222222u000000" -> "$\\pi_1^*$"
          [] c = "222222200u0000" -> "$\\pi_3^*$"
          [] c = "22222220u00000" -> "$\\pi_2^*$"
          [] c = "22222u22000000" -> "$\\pi\\pi_2^*$+$\\pi_2^*$"
          [] c = "222222200000u0" -> "$\\pi_4^*$"
          [] c = "2222222000u000" -> "$\\sigma_{NO}^*$"
          [] c = "22222220000u00" -> "$\\sigma_{{CCl}_1}^*$"
          [] c = "2222222000000u" -> "$\\sigma_{{CCl}_2}^*$"]

GEOMETRY_NAMES == [planar |-> "p-NDP", nonplanar |-> "NDP"]

\* lines 117-127
map_config_to_label(config) ==
    IF config \in DOMAIN CONFIG_LABELS THEN CONFIG_LABELS[config] ELSE config

RECURSIVE NatStr(_)
\* str(n), n >= 0
NatStr(n) ==
    IF n < 10 THEN Char(DIGITS, n + 1) ELSE NatStr(n \div 10) \o Char(DIGITS, (n % 10) + 1)

RECURSIVE Pad(_, _)
\* s with zeros in front, to k characters
Pad(s, k) == IF Len(s) >= k THEN s ELSE Pad("0" \o s, k)

RECURSIVE DropZeros(_)
\* s without its trailing zeros, but for one character
DropZeros(s) ==
    IF Len(s) > 1 /\ Char(s, Len(s)) = "0" THEN DropZeros(SubSeq(s, 1, Len(s) - 1)) ELSE s

Sign(x) == IF x < 0 THEN "-" ELSE ""

\* str(x) of the float x thousandths: the shortest decimal, one digit at least
\* after the point
FloatStr(x) ==
    Sign(x) \o NatStr(Abs(x) \div Scale) \o "." \o DropZeros(Pad(NatStr(Abs(x) % Scale), 3))

\* "%.1f" of the float x thousandths, rounded to the nearest
Fixed1(x) ==
    LET m == (Abs(x) + 50) \div 100
    IN  (IF x < 0 /\ m # 0 THEN "-" ELSE "") \o NatStr(m \div 10) \o "." \o NatStr(m % 10)

\* Hartree to eV (27.2114), in 1/10000
HartreeToEV == 272114

\* "%.4f" of x * 27.2114 for the float x thousandths, rounded to the nearest;
\* the product is taken in two parts to stay within 32 bits
EV4(x) ==
    LET m == Abs(x) * (HartreeToEV \div Scale)
               + (2 * Abs(x) * (HartreeToEV % Scale) + Scale) \div (2 * Scale)
        p == 10 * Scale
    IN  (IF x < 0 /\ m # 0 THEN "-" ELSE "") \o NatStr(m \div p) \o "." \o Pad(NatStr(m % p), 4)

\* f"{v}"
Str(v) == IF v.t = "None" THEN "None" ELSE FloatStr(v.v)

\* if v:
Truthy(v) == v.t # "None" /\ v.v # 0

\* lines 165-168
NumRoots ==
    LET Top(roots) == IF DOMAIN roots = {} THEN 0
                      ELSE CHOOSE k \in DOMAIN roots : \A j \in DOMAIN roots : j <= k
    IN  IF Top(planar_roots) >= Top(nonplanar_roots)
        THEN Top(planar_roots) ELSE Top(nonplanar_roots)

\* lines 176-177: roots.get(root, {}).get('configs', {})
ConfigsOf(roots, r) == IF r \in DOMAIN roots THEN roots[r].configs ELSE <<>>

\* line 178 without the union: the keys of the planar side only
AllConfsPlanar(r) == DOMAIN ConfigsOf(planar_roots, r)

\* line 178
AllConfs(r) == DOMAIN ConfigsOf(planar_roots, r) \cup DOMAIN ConfigsOf(nonplanar_roots, r)

\* lines 189-190: configs.get(conf, 0.0)
WeightOf(configs, conf) == IF conf \in DOMAIN configs THEN configs[conf] ELSE 0

\* lines 185-191 and 219: the rows of the table, as to_csv writes them
Table(r) ==
    { [Configuration |-> map_config_to_label(conf),
       planar        |-> Fixed1(WeightOf(ConfigsOf(planar_roots, r), conf)),
       nonplanar     |-> Fixed1(WeightOf(ConfigsOf(nonplanar_roots, r), conf))]
      : conf \in AllConfs(r) }

\* lines 210-211: roots.get(root, {}).get('energy', 'N/A'), formatted
EnergyText(roots, r) == IF r \in DOMAIN roots THEN Str(roots[r].energy) ELSE "N/A"

\* lines 212-213: roots.get(root, {}).get('energy')
EnergyOf(roots, r) == IF r \in DOMAIN roots THEN roots[r].energy ELSE None

\* lines 214-216: the energy-difference line, if it is written
EnergyDifference(r) ==
    LET planar_energy    == EnergyOf(planar_roots, r)
        nonplanar_energy == EnergyOf(nonplanar_roots, r)
    IN  IF Truthy(planar_energy) /\ Truthy(nonplanar_energy)
        THEN << "Energy Difference (eV): "
                   \o EV4(nonplanar_energy.v - planar_energy.v) >>
        ELSE << >>

\* lines 209-217: what is written ahead of the table
Header(r) ==
    << "Coefficient threshold: |c| >= " \o FloatStr(threshold),
       GEOMETRY_NAMES.planar \o " Energy (Hartree): " \o EnergyText(planar_roots, r),
       GEOMETRY_NAMES.nonplanar \o " Energy (Hartree): " \o EnergyText(nonplanar_roots, r) >>
    \o EnergyDifference(r) \o << "" >>

callvars == <<calls, file>>

\* line 161 returns
PlanarReturns ==
    /\ pc = "parse_planar" /\ Returned(calls[1])
    /\ planar_roots' = calls[1].roots
    /\ calls' = <<Activation(threshold)>>
    /\ file' = NewFile
    /\ pc' = "parse_nonplanar"
    /\ UNCHANGED <<threshold, nonplanar_roots, root, txt, png, errors>>

\* line 162 returns: no call of the parser is left, its file is closed
NonplanarReturns ==
    /\ pc = "parse_nonplanar" /\ Returned(calls[1])
    /\ nonplanar_roots' = calls[1].roots
    /\ calls' = << >>
    /\ file' = NewFile
    /\ pc' = "for"
    /\ UNCHANGED <<threshold, planar_roots, root, txt, png, errors>>

\* an exception of parse_ras_weights, which nothing catches, ends main
ParseRaises ==
    /\ pc \in {"parse_planar", "parse_nonplanar"} /\ Raised(calls[1])
    /\ pc' = "traceback"
    /\ UNCHANGED <<callvars, threshold, planar_roots, nonplanar_roots, root, txt, png, errors>>

\* lines 172-194: the next root, skipped if it has no configuration
ForRoot ==
    /\ pc = "for"
    /\ IF root >= NumRoots
       THEN pc' = "done" /\ root' = root
       ELSE /\ root' = root + 1
            /\ pc' = IF AllConfs(root + 1) = {} THEN "for" ELSE "frame"
    /\ UNCHANGED <<callvars, threshold, planar_roots, nonplanar_roots, txt, png, errors>>

\* the try block without its handler: the exception leaves main
ExceptUncaught == "traceback"

\* lines 263-265: where main goes on after an exception in the try block
Except == "for"

\* a statement of the try block raises
Raises ==
    /\ pc \in {"frame", "open", "header", "table", "plot"}
    /\ pc' = Except
    /\ errors' = errors \cup {root}
    /\ UNCHANGED <<callvars, threshold, planar_roots, nonplanar_roots, root, txt, png>>

\* lines 197-203
Frame ==
    /\ pc = "frame"
    /\ pc' = "open"
    /\ UNCHANGED <<callvars, threshold, planar_roots, nonplanar_roots, root, txt, png, errors>>

\* txt with the report of root r replaced
Put(r, report) == [k \in DOMAIN txt \cup {r} |-> IF k = r THEN report ELSE txt[k]]

\* line 207: open(output_txt, 'w') creates the file, empty
OpenTxt ==
    /\ pc = "open"
    /\ txt' = Put(root, [head |-> << >>, csv |-> FALSE, rows |-> {}])
    /\ pc' = "header"
    /\ UNCHANGED <<callvars, threshold, planar_roots, nonplanar_roots, root, png, errors>>

\* lines 209-217
WriteHeader ==
    /\ pc = "header"
    /\ txt' = [txt EXCEPT ![root].head = Header(root)]
    /\ pc' = "table"
    /\ UNCHANGED <<callvars, threshold, planar_roots, nonplanar_roots, root, png, errors>>

\* lines 219-221
WriteTable ==
    /\ pc = "table"
    /\ txt' = [txt EXCEPT ![root].csv = TRUE, ![root].rows = Table(root)]
    /\ pc' = "plot"
    /\ UNCHANGED <<callvars, threshold, planar_roots, nonplanar_roots, root, png, errors>>

\* lines 224-261
Plot ==
    /\ pc = "plot"
    /\ png' = png \cup {root}
    /\ pc' = "for"
    /\ UNCHANGED <<callvars, threshold, planar_roots, nonplanar_roots, root, txt, errors>>

(***************************************************************************)
(* SpecMain: main on two log files of at most MaxMainLines lines of        *)
(* MainLines.                                                              *)
(***************************************************************************)
\* line 146: thres is not given, in thousandths
DefaultThreshold == 200

InitMain ==
    /\ threshold = DefaultThreshold
    /\ calls = <<Activation(threshold)>>
    /\ file = NewFile
    /\ pc = "parse_planar"
    /\ planar_roots = <<>> /\ nonplanar_roots = <<>>
    /\ root = 0 /\ txt = <<>> /\ png = {} /\ errors = {}

Parsing == pc \in {"parse_planar", "parse_nonplanar"}

NextMain ==
    \/ Parsing /\ DetectLine(MainLines, MaxMainLines)
    \/ Parsing /\ DetectEnd
    \/ Parsing /\ BuildRoots
    \/ Parsing /\ ParseLine(MainLines, MaxMainLines)
    \/ Parsing /\ ParseEnd
    \/ PlanarReturns
    \/ NonplanarReturns
    \/ ParseRaises
    \/ ForRoot
    \/ Frame
    \/ OpenTxt
    \/ WriteHeader
    \/ WriteTable
    \/ Plot
    \/ Raises

SpecMain == InitMain /\ [][NextMain]_vars

\* main runs on: one thread, no blocking call, every loop over a finite range
SpecMainFair == SpecMain /\ WF_vars(NextMain)

(***************************************************************************)
(* Claims.                                                                 *)
(***************************************************************************)
\* C1: on a log file in which no line contains 'ciroot', detect_num_roots
\* returns 7 and parse_ras_weights builds the records of roots 1..7 without
\* failing.
C1_NoCirootGivesSevenRoots ==
    \A c \in DOMAIN calls :
        LET a == calls[c]
        IN  (file.known = "plain" /\ a.pc # "detect") =>
                /\ a.num_roots = PyIntVal(DefaultRoots)
                /\ ~Raised(a)
                /\ a.pc \in {"parse", "returned"} => DOMAIN a.roots = 1..DefaultRoots

\* C2: a malformed numeric token (root index, energy, coefficient, weight)
\* never aborts the pass: no call is left by a ValueError.
C2_MalformedTokenNeverAborts ==
    \A c \in DOMAIN calls : ~(Raised(calls[c]) /\ calls[c].exc = "ValueError")

\* the last iteration of a processed a root-start line and the line after it
AfterRootStart(a) ==
    /\ a.pc \in {"parse", "returned"} \/ (Raised(a) /\ a.exc = "KeyError")
    /\ Text[a.line].root_start /\ Text[a.line].root.ok
    /\ a.current_root = Text[a.line].root.v

\* the iteration just taken by a parsed the energy of a root-start block
EnergyParsed(a) ==
    /\ AfterRootStart(a)
    /\ Text[a.next_line].has_energy /\ Text[a.next_line].energy.ok

\* the configurations of root r in activation a (none if r has no record)
Configs(a, r) == IF r \in DOMAIN a.roots THEN a.roots[r].configs ELSE <<>>

\* the energy of root r in activation a
Energy(a, r) == IF r \in DOMAIN a.roots THEN a.roots[r].energy ELSE None

\* the line just processed is a configuration line that line 103 admits
AdmittedLine(a, conf) ==
    LET t == Text[a.line]
    IN  /\ t.match.matched /\ t.match.g2 = conf
        /\ Len(conf) = ConfLen
        /\ t.coeff.ok /\ t.weight.ok
        /\ Abs(t.coeff.v) >= a.threshold

\* C3: when a root-start line names a root index beyond num_roots, parsing
\* goes on without error and the record of that root is created when it is
\* needed: it holds the energy of the block's energy line and the admitted
\* configuration lines of the block.
C3_RootBeyondCountIsCreated ==
    \A c \in DOMAIN calls :
        LET a == calls[c]
            r == a.current_root
        IN  (a.num_roots.t = "int" /\ r > a.num_roots.v /\ r > 0) =>
                /\ ~(Raised(a) /\ a.exc = "KeyError")
                /\ EnergyParsed(a) =>
                       Energy(a, r) = PyFloatVal(Text[a.next_line].energy.v)
                /\ (~Raised(a) /\ ~Text[a.line].root_start /\ a.in_config_section
                        /\ AdmittedLine(a, Text[a.line].match.g2)) =>
                       Text[a.line].match.g2 \in DOMAIN Configs(a, r)

\* C4: every configuration string in a record has length 14, and an entry
\* is added or changed only by an iteration whose line carries that string,
\* of length 14, with abs(coefficient) >= threshold.
C4_AdmissionInvariant ==
    /\ [](\A c \in DOMAIN calls : \A r \in DOMAIN calls[c].roots :
             \A s \in DOMAIN calls[c].roots[r].configs : Len(s) = ConfLen)
    /\ [][\A c \in DOMAIN calls : \A r \in DOMAIN calls'[c].roots :
             \A s \in DOMAIN calls'[c].roots[r].configs :
                 (\/ s \notin DOMAIN Configs(calls[c], r)
                  \/ Configs(calls[c], r)[s] # calls'[c].roots[r].configs[s])
                 => /\ AdmittedLine(calls'[c], s)
                    /\ r = calls'[c].current_root]_vars

\* C4 witness: a record holds a configuration, and the line just processed
\* matched the pattern with abs(coefficient) below the threshold and was
\* not recorded.
C4_Witness ==
    \E c \in DOMAIN calls :
        LET a == calls[c]
            t == Text[a.line]
        IN  /\ a.pc = "parse" /\ a.in_config_section
            /\ a.current_root \in DOMAIN a.roots
            /\ DOMAIN a.roots[a.current_root].configs # {}
            /\ ~t.root_start /\ t.match.matched /\ Len(t.match.g2) = ConfLen
            /\ t.coeff.ok /\ Abs(t.coeff.v) < a.threshold
            /\ t.match.g2 \notin DOMAIN a.roots[a.current_root].configs

C7_RootIndexSet ==
    \A c \in DOMAIN calls :
        LET a == calls[c]
        IN  Returned(a) =>
                /\ a.num_roots.t = "int" /\ a.num_roots.v > 0
                /\ DOMAIN a.roots = 1..a.num_roots.v

\* the configuration strings a call has recorded for root r: those of the
\* collection it returned, none if it raised
Recorded(a, r) == IF Returned(a) THEN DOMAIN Configs(a, r) ELSE {}

\* C8: on the same log, the configurations recorded for a root with the
\* higher threshold are among those recorded with the lower threshold.
C8_ThresholdMonotone ==
    (Len(calls) = 2 /\ Live = {}) =>
        \A r \in 1..DefaultRoots : Recorded(calls[2], r) \subseteq Recorded(calls[1], r)

\* the statements of the try block (lines 196-261)
Try == {"frame", "open", "header", "table", "plot"}

\* the header of the report of root r is on disk
HeaderWritten(r) == r \in DOMAIN txt /\ txt[r].head # << >>

\* the parse of a file kept a configuration of a block of root r and no
\* energy: every root-start line of r was followed by a line without 'energy='
EnergyMissing(roots, r) ==
    r \in DOMAIN roots /\ roots[r].configs # << >> /\ roots[r].energy = None

\* C6: when the line after the root-start line of root r has no 'energy=',
\* the report of root r shows 'N/A' as that geometry's energy and has no
\* energy-difference line.
C6_MissingEnergyShowsNA ==
    \A r \in DOMAIN txt :
        HeaderWritten(r) =>
            /\ EnergyMissing(planar_roots, r) =>
                   /\ txt[r].head[2] = GEOMETRY_NAMES.planar \o " Energy (Hartree): N/A"
                   /\ Len(txt[r].head) = 4
            /\ EnergyMissing(nonplanar_roots, r) =>
                   /\ txt[r].head[3] = GEOMETRY_NAMES.nonplanar \o " Energy (Hartree): N/A"
                   /\ Len(txt[r].head) = 4

\* C10: an exception raised in the try block for root k is caught: main goes
\* on at the head of the loop with root k; from the head of the loop the next
\* root is always taken up, and enters the try block when its configuration
\* union is not empty; and the loop ends past root N.
C10_PerRootIsolation ==
    /\ [][(pc \in Try) => (pc' \in Try \cup {"for"} /\ root' = root)]_vars
    /\ [][(pc = "for" /\ root < NumRoots) =>
              /\ root' = root + 1
              /\ (AllConfs(root + 1) # {} => pc' = "frame")]_vars
    /\ [](pc \in Try \cup {"for"} => <>(pc = "done" /\ root = NumRoots))

\* C10 witness: the loop is over two roots with configurations; root 1 left
\* the try block before its heatmap was saved, root 2 has been emitted.
C10_Witness ==
    /\ pc = "done" /\ NumRoots = 2
    /\ AllConfs(1) # {} /\ 1 \notin png
    /\ 2 \in DOMAIN txt /\ txt[2].csv /\ 2 \in png

\* the configuration strings a returned collection holds for root r
Keys(roots, r) == IF r \in DOMAIN roots THEN DOMAIN roots[r].configs ELSE {}

\* the configuration strings either geometry holds for root r
Union(r) == Keys(planar_roots, r) \cup Keys(nonplanar_roots, r)

\* the weight a collection holds for string s of root r, 0.0 if it has none
Percent(roots, r, s) == IF s \in Keys(roots, r) THEN roots[r].configs[s] ELSE 0

\* the largest root index of a collection, 0 if it is empty
MaxIndex(roots) ==
    IF DOMAIN roots = {} THEN 0
    ELSE CHOOSE k \in DOMAIN roots : \A j \in DOMAIN roots : j <= k

\* the larger of the two collections' largest index
LastRoot ==
    IF MaxIndex(planar_roots) >= MaxIndex(nonplanar_roots)
    THEN MaxIndex(planar_roots) ELSE MaxIndex(nonplanar_roots)

\* the report of root r is on disk with its table
TableWritten(r) == r \in DOMAIN txt /\ txt[r].csv

\* C11: the table of a root has exactly one row per string of the union of
\* the two geometries' configuration keys, with each geometry's weight, 0.0
\* where the key or the whole root is absent on that side; a report or a
\* heatmap exists only for a root in 1..LastRoot with a nonempty union; and
\* once the loop is over, every root in 1..LastRoot with a nonempty union and
\* no error message has both its report and its heatmap.
C11_MergedTable ==
    /\ \A r \in DOMAIN txt :
           txt[r].csv =>
               txt[r].rows =
                   { [Configuration |-> map_config_to_label(s),
                      planar        |-> Fixed1(Percent(planar_roots, r, s)),
                      nonplanar     |-> Fixed1(Percent(nonplanar_roots, r, s))]
                     : s \in Union(r) }
    /\ \A r \in DOMAIN txt \cup png \cup errors : r \in 1..LastRoot /\ Union(r) # {}
    /\ pc = "done" =>
           \A r \in 1..LastRoot :
               (Union(r) # {} /\ r \notin errors) => (TableWritten(r) /\ r \in png)

\* C11 witness: the loop is over; root 1 has a key on the planar side only,
\* root 2 has no record on the planar side and a key on the other; both
\* roots have their report, with 0.0 on the absent side, and their heatmap.
C11_Witness ==
    /\ pc = "done" /\ errors = {}
    /\ Keys(planar_roots, 1) # {} /\ Keys(nonplanar_roots, 1) = {}
    /\ 2 \notin DOMAIN planar_roots /\ Keys(nonplanar_roots, 2) # {}
    /\ TableWritten(1) /\ TableWritten(2) /\ png = {1, 2}
    /\ \A row \in txt[1].rows : row.nonplanar = "0.0" /\ row.planar # "0.0"
    /\ \A row \in txt[2].rows : row.planar = "0.0" /\ row.nonplanar # "0.0"

\* the energy a returned collection holds for root r, None if it holds none
StoredEnergy(roots, r) == IF r \in DOMAIN roots THEN roots[r].energy ELSE None

\* C12: the report of a root has the 'Energy Difference (eV)' line exactly
\* when both geometries' energies of the root are set, whatever their
\* values, and the line gives (non-planar - planar) * 27.2114.
C12_EnergyDifferenceLine ==
    \A r \in DOMAIN txt :
        HeaderWritten(r) =>
            LET planar_energy    == StoredEnergy(planar_roots, r)
                nonplanar_energy == StoredEnergy(nonplanar_roots, r)
                both == planar_energy # None /\ nonplanar_energy # None
            IN  /\ both <=> Len(txt[r].head) = 5
                /\ both => txt[r].head[4] = "Energy Difference (eV): "
                               \o EV4(nonplanar_energy.v - planar_energy.v)

\* main is inside the with block (lines 207-219) writing the report of root r
Writing(r) == root = r /\ pc \in {"header", "table"}

\* C13: a report that is on disk for a root, and is not being written at
\* this moment, has its full content: the header lines and the table.  An
\* exception in the try block leaves no partial report behind.
C13_NoHalfWrittenReport ==
    \A r \in DOMAIN txt : ~Writing(r) => (HeaderWritten(r) /\ txt[r].csv)

\* what detect_num_roots is to return on each of the lines with 'ciroot':
\* the integer at index 2, and 7 when that token is missing or no integer
FirstCiroot ==
    [l \in CirootLines |->
        CASE l = "ciroot = 2 2 1"   -> 2
          [] l = "CIROOT = 7 7 1"   -> 7
          [] l = "ciroot = x"       -> 7
          [] l = "ciroot ="         -> 7
          [] l = "ciroot = 0 0 1"   -> 0
          [] l = "ciroot = -1 1 1"  -> -1]

\* C14: detect_num_roots decides on the first line that contains 'ciroot'
\* in any case: every line before it (every line of the file, if it found
\* none) has no 'ciroot'; the result is the integer at index 2 of that line,
\* or 7 when the token is missing or not an integer; and no line read
\* later, with or without 'ciroot', changes num_roots.
C14_FirstCirootDecides ==
    /\ [](\A c \in DOMAIN calls :
             LET a == calls[c]
             IN  /\ (a.pc # "detect" /\ file.known = "ciroot") =>
                        /\ file.line \in CirootLines
                        /\ a.num_roots = PyIntVal(FirstCiroot[file.line])
                 /\ (a.pc # "detect" /\ file.known \in {"plain", "ciroot"}) =>
                        a.line \notin CirootLines /\ a.next_line \notin CirootLines)
    /\ [][\A c \in DOMAIN calls :
             calls[c].pc # "detect" => calls'[c].num_roots = calls[c].num_roots]_vars

\* C14 witness: the parse pass has just read a line with 'ciroot' that gives
\* another count than the first one did, and num_roots is still the count
\* of the first one, a parsed integer.
C14_Witness ==
    \E c \in DOMAIN calls :
        LET a == calls[c]
        IN  /\ a.pc = "parse" /\ a.line \in CirootLines
            /\ a.num_roots = PyIntVal(2)
            /\ FirstCiroot[a.line] # 2

\* this step is an iteration of the parse loop of call c
Iteration(c) == calls[c].pc = "parse" /\ file' # file

\* line l has one of the section-end marks
SectionEnd(l) ==
    \/ Contains(l, "Natural orbitals and occupation numbers")
    \/ Contains(l, "----")
    \/ Contains(l, "====")

\* C15: in a configuration section, an iteration on a line that does not
\* match the configuration pattern (and is no root-start line) and has a
\* section-end mark sets in_config_section to false; and a configuration is
\* recorded only while in_config_section is true, so none is recorded
\* between such a line and the next root-start line.
C15_SectionEndTriggers ==
    [][\A c \in DOMAIN calls :
          LET a == calls[c]
              b == calls'[c]
              l == b.line
          IN  (Iteration(c) /\ ~Raised(b) /\ ~Text[l].root_start) =>
                  /\ (a.in_config_section /\ a.current_root > 0
                        /\ ~Text[l].match.matched /\ SectionEnd(l)) =>
                         ~b.in_config_section
                  /\ b.roots # a.roots => a.in_config_section]_vars

Energies(a) == [r \in DOMAIN a.roots |-> a.roots[r].energy]

\* this step is an iteration of call c on a line with 'energy=' that is not
\* a root-start line: the line is not at the offset of the energy line
StrayEnergyLine(c) ==
    /\ Iteration(c)
    /\ ~Text[calls'[c].line].root_start
    /\ Text[calls'[c].line].has_energy

\* C17 as stated: an energy changes only in the iteration that processes a
\* root-start line and the line after it, and an iteration on a line with
\* 'energy=' anywhere else changes no energy and no configuration.
C17_EnergyOnlyAtOffset ==
    [][\A c \in DOMAIN calls :
          LET a == calls[c]
              b == calls'[c]
          IN  /\ (a.pc = "parse" /\ Energies(b) # Energies(a)) =>
                     (Iteration(c) /\ Text[b.line].root_start)
              /\ StrayEnergyLine(c) => b.roots = a.roots]_vars

\* C17 amended: an energy changes only in the iteration that processes a
\* root-start line and the line after it; an iteration on a line with
\* 'energy=' anywhere else changes no energy, and changes no configuration
\* unless the line also matches the configuration pattern.
C17_EnergyOnlyAtOffsetUnlessConfig ==
    [][\A c \in DOMAIN calls :
          LET a == calls[c]
              b == calls'[c]
          IN  /\ (a.pc = "parse" /\ Energies(b) # Energies(a)) =>
                     (Iteration(c) /\ Text[b.line].root_start)
              /\ StrayEnergyLine(c) =>
                     /\ Energies(b) = Energies(a)
                     /\ ~Text[b.line].match.matched => b.roots = a.roots]_vars

\* C17 witness: root 1 has the energy of its energy line, and the line just
\* processed, later in its block, has 'energy=' with another value.
C17_Witness ==
    \E c \in DOMAIN calls :
        LET a == calls[c]
        IN  /\ a.pc = "parse" /\ a.current_root = 1 /\ a.in_config_section
            /\ a.line = "energy= -99.25" /\ a.next_line = "energy= -100.5"
            /\ a.roots[1].energy = PyFloatVal(-100500)

\* 100 times the weight field of the configuration lines, in thousandths
Hundredfold ==
    [l \in { "1 22222220u00000 -0.950 0.902", "1 22222220u00000 0.700 0.490",
             "2 2222222u000000 -0.300 0.090",
             "3 222222200u0000 0.800 0.640 energy= -1.0" } |->
        CASE l = "1 22222220u00000 -0.950 0.902" -> 90200
          [] l = "1 22222220u00000 0.700 0.490"  -> 49000
          [] l = "2 2222222u000000 -0.300 0.090" -> 9000
          [] l = "3 222222200u0000 0.800 0.640 energy= -1.0" -> 64000]

\* this step is an iteration of call c on a line admitted for string s: a
\* configuration line of a section of a root that has a record
AdmittedStep(c, s) ==
    /\ Iteration(c)
    /\ ~Text[calls'[c].line].root_start
    /\ calls[c].in_config_section
    /\ calls[c].current_root \in DOMAIN calls[c].roots
    /\ AdmittedLine(calls'[c], s)

\* C18: an iteration on an admitted line for string s while current_root = r
\* raises nothing and leaves configs[s] of r at 100 times the line's weight
\* field, whether or not r held s before; a weight changes in no other
\* step, so the stored weight is that of the last admitted line; no step
\* removes a configuration, and an iteration on a root-start line changes
\* no configs and sets the counter of the block to zero.
C18_LastSeenWins ==
    [][\A c \in DOMAIN calls :
          LET a == calls[c]
              b == calls'[c]
              r == a.current_root
          IN  (a.pc = "parse") =>
                  /\ \A s \in {Text[b.line].match.g2} :
                         AdmittedStep(c, s) =>
                             /\ ~Raised(b)
                             /\ s \in DOMAIN b.roots[r].configs
                             /\ b.roots[r].configs[s] = Hundredfold[b.line]
                  /\ \A q \in DOMAIN a.roots : \A s \in DOMAIN a.roots[q].configs :
                         /\ s \in DOMAIN b.roots[q].configs
                         /\ b.roots[q].configs[s] # a.roots[q].configs[s] =>
                                (q = r /\ AdmittedStep(c, s))
                  /\ (Iteration(c) /\ Text[b.line].root_start /\ ~Raised(b)) =>
                         /\ \A q \in DOMAIN a.roots :
                                b.roots[q].configs = a.roots[q].configs
                         /\ b.config_count = 0]_vars

\* C18 witness: the block of root 1 has recorded two lines with the same
\* string; the record holds that string once, with the weight of the second
\* line, 49.0, in place of 90.2.
C18_Witness ==
    \E c \in DOMAIN calls :
        LET a == calls[c]
        IN  /\ a.pc = "parse" /\ a.current_root = 1
            /\ a.line = "1 22222220u00000 0.700 0.490"
            /\ a.roots[1].configs = [s \in {"22222220u00000"} |-> 49000]
            /\ a.config_count = 2

\* this step is an iteration of call c on a root-start line that read the
\* line after it
RootStartStep(c) ==
    /\ Iteration(c)
    /\ Text[calls'[c].line].root_start /\ Text[calls'[c].line].root.ok
    /\ ~(Raised(calls'[c]) /\ calls'[c].exc = "StopIteration")

\* C19: the iteration on a root-start line takes the line after it from the
\* file as well, so that no iteration has it as its line; whatever that
\* line reads, current_root is the root of the root-start line itself and
\* no configuration is recorded in the step.
C19_NextLineConsumed ==
    [][\A c \in DOMAIN calls :
          LET a == calls[c]
              b == calls'[c]
          IN  RootStartStep(c) =>
                  /\ file'.pos = file.pos + 2
                  /\ b.current_root = Text[b.line].root.v
                  /\ \A q \in DOMAIN a.roots : b.roots[q].configs = a.roots[q].configs
                  /\ b.config_count = 0]_vars

\* C19 witness: the root-start line of root 1 has just been processed
\* together with the line after it, the root-start line of root 2, and
\* current_root is 1.
C19_Witness ==
    \E c \in DOMAIN calls :
        LET a == calls[c]
        IN  /\ a.pc = "parse" /\ a.current_root = 1 /\ a.in_config_section
            /\ a.line = "printout of CI-coefficients larger than 0.05 for root 1"
            /\ a.next_line = "printout of CI-coefficients larger than 0.05 for root 2"

\* C20: on a log file with a 'ciroot' line, well-formed numeric tokens and
\* root indices within 1..num_roots, the pass raises nothing, also when the
\* last line is a root-start line; it reads on until the end of the file
\* and returns there.
C20_ReturnsAtEndOfFile ==
    \A c \in DOMAIN calls :
        LET a == calls[c]
        IN  a.num_roots # None => ~Raised(a)

====
